---- MODULE Spec2Model ----
(***************************************************************************)
(* Model of src/calculoexoticas.py: norm_cdf, black_scholes_barrier_option *)
(* and the module-level example (lines 54-71).                            *)
(*                                                                         *)
(* Numbers.  A Python float is an IEEE-754 binary float.  The model keeps  *)
(* the format and shrinks it: a float is an integer count of 2^-FracBits  *)
(* (the spacing of the subnormals) that has at most Precision significant  *)
(* bits, and every arithmetic operation rounds its exact result to the     *)
(* nearest such number, ties to even, as binary64 does with 53 bits.       *)
(* math.log, math.exp and math.erf are library routines: they are          *)
(* computed here by series in fixed point and then rounded, so they are    *)
(* accurate to about a unit in the last place, like a libm.                *)
(***************************************************************************)
EXTENDS Integers, Sequences, FiniteSets, TLC

\* ------------------------------------------------------------- bounds
\* Significant bits of a float (53 in binary64).
Precision == 8
\* Half the number of fraction bits of the smallest float spacing.
HalfBits == 8
\* Price-like inputs S, K, H range over the whole numbers -1 .. MaxPrice.
MaxPrice == 2
\* Calls a client makes after the import in the determinism specification.
MaxCalls == 2
\* norm_cdf is applied to the eighths -XSteps/8 .. XSteps/8.
XSteps == 24

FracBits == 2 * HalfBits

RECURSIVE Pow2(_)
Pow2(k) == IF k <= 0 THEN 1 ELSE 2 * Pow2(k - 1)

\* 1.0
One == Pow2(FracBits)
Half == One \div 2
Two == 2 * One

Abs(n) == IF n < 0 THEN -n ELSE n
Sgn(n) == IF n < 0 THEN -1 ELSE 1
Max(a, b) == IF a >= b THEN a ELSE b
Min(a, b) == IF a <= b THEN a ELSE b

RECURSIVE BitLen(_)
BitLen(n) == IF n = 0 THEN 0 ELSE 1 + BitLen(n \div 2)

RECURSIVE Gcd(_, _)
Gcd(a, b) == IF b = 0 THEN a ELSE Gcd(b, a % b)

\* floor(a / b) for b > 0 and any a
FloorDiv(a, b) == IF a >= 0 THEN a \div b ELSE -((-a + b - 1) \div b)

\* ------------------------------------------- rounding to a float
\* m / 2^s rounded to the nearest integer, ties to even (s >= 1, m >= 0)
RoundHalfEven(m, s) ==
  LET q == m \div Pow2(s)
      rem == m % Pow2(s)
      half == Pow2(s - 1)
  IN  IF rem > half \/ (rem = half /\ q % 2 = 1) THEN q + 1 ELSE q

\* the float nearest to m * 2^e units (m >= 0): Precision significant bits,
\* and never finer than one unit (gradual underflow)
Round(m, e) ==
  LET g == Max(0, BitLen(m) + e - Precision)
      sh == g - e
  IN  IF m = 0 THEN 0
      ELSE IF sh <= 0 THEN m * Pow2(e)
      ELSE RoundHalfEven(m, sh) * Pow2(g)

IsFloat(n) == Round(Abs(n), 0) = Abs(n)

\* a > 0 as Mant(a) * 2^Expo(a) with Mant(a) of exactly Precision bits
Expo(a) == BitLen(a) - Precision
Mant(a) == IF Expo(a) >= 0 THEN a \div Pow2(Expo(a)) ELSE a * Pow2(-Expo(a))

\* ------------------------------------------- float arithmetic (+ - * / sqrt)
fadd(a, b) == Sgn(a + b) * Round(Abs(a + b), 0)
fneg(a) == -a
fsub(a, b) == fadd(a, -b)

fmul(a, b) ==
  IF a = 0 \/ b = 0 THEN 0
  ELSE Sgn(a) * Sgn(b)
         * Round(Mant(Abs(a)) * Mant(Abs(b)), Expo(Abs(a)) + Expo(Abs(b)) - FracBits)

\* b # 0.  The quotient of the mantissas is taken to Precision + 2 bits with a
\* sticky bit for the remainder, which is enough to round correctly.
fdiv(a, b) ==
  IF a = 0 THEN 0
  ELSE LET n == Mant(Abs(a)) * Pow2(Precision + 2)
           q == n \div Mant(Abs(b))
           sticky == IF n % Mant(Abs(b)) = 0 THEN 0 ELSE 1
       IN  Sgn(a) * Sgn(b)
             * Round(2 * q + sticky,
                     Expo(Abs(a)) - Expo(Abs(b)) - (Precision + 2) - 1 + FracBits)

RECURSIVE ISqrtIter(_, _, _)
ISqrtIter(n, lo, hi) ==
  IF hi - lo <= 1 THEN lo
  ELSE LET mid == (lo + hi) \div 2
       IN  IF mid * mid <= n THEN ISqrtIter(n, mid, hi) ELSE ISqrtIter(n, lo, mid)

\* floor(sqrt(n)) for 0 <= n < 2^(2 * Precision + 6)
ISqrt(n) == ISqrtIter(n, 0, Pow2(Precision + 3))

\* math.sqrt of a >= 0, correctly rounded
fsqrt(a) ==
  IF a = 0 THEN 0
  ELSE LET odd == (Expo(a) % 2 = 1)
           m == IF odd THEN 2 * Mant(a) ELSE Mant(a)
           e == IF odd THEN Expo(a) - 1 ELSE Expo(a)
           sc == IF Precision % 2 = 0 THEN Precision + 2 ELSE Precision + 3
           n == m * Pow2(sc)
           s == ISqrt(n)
           sticky == IF s * s = n THEN 0 ELSE 1
       IN  Round(2 * s + sticky, FloorDiv(e, 2) - (sc \div 2) - 1 + HalfBits)

\* a float literal num/den (num, den > 0), correctly rounded as the parser
\* rounds a decimal literal and as int / int rounds
Lit(num, den) ==
  LET g == Gcd(num, den)
      k == 30 - BitLen(num \div g)
      n == (num \div g) * Pow2(k)
      q == n \div (den \div g)
      sticky == IF n % (den \div g) = 0 THEN 0 ELSE 1
  IN  Round(2 * q + sticky, FracBits - k - 1)

\* ------------------------------------------- fixed point, for the series
\* floor(|x| * |y| / One) with the sign of x * y, without leaving 32 bits
fxmul(x, y) ==
  LET h == Pow2(HalfBits)
      xh == Abs(x) \div h
      xl == Abs(x) % h
      yh == Abs(y) \div h
      yl == Abs(y) % h
      cross == xh * yl + xl * yh
  IN  Sgn(x) * Sgn(y)
        * (xh * yh + cross \div h + ((cross % h) * h + xl * yl) \div One)

\* floor(x * One / y) for 0 <= x < y
fxdiv(x, y) ==
  LET h == Pow2(HalfBits)
      q == (x * h) \div y
      r == (x * h) % y
  IN  q * h + (r * h) \div y

\* atanh(s) = s + s^3/3 + s^5/5 + ...; p is the current odd power of s
RECURSIVE AtanhSeries(_, _, _, _)
AtanhSeries(s2, p, n, acc) ==
  IF p = 0 THEN acc ELSE AtanhSeries(s2, fxmul(p, s2), n + 2, acc + p \div n)

Atanh(s) == AtanhSeries(fxmul(s, s), s, 1, 0)

\* ln 2 = 2 atanh(1/3)
Ln2 == 2 * Atanh(fxdiv(One, 3 * One))

\* ln of a float a > 0: a = f * 2^k with 1 <= f < 2, ln a = k ln 2 + 2 atanh((f-1)/(f+1))
FxLn(a) ==
  LET k == BitLen(a) - 1 - FracBits
      f == IF k >= 0 THEN a \div Pow2(k) ELSE a * Pow2(-k)
  IN  k * Ln2 + 2 * Atanh(fxdiv(f - One, f + One))

\* math.log of a > 0
flog(a) == Sgn(FxLn(a)) * Round(Abs(FxLn(a)), 0)

\* e^f = 1 + f + f^2/2! + ...; t is the current term
RECURSIVE ExpSeries(_, _, _, _)
ExpSeries(f, t, n, acc) ==
  IF t = 0 THEN acc ELSE ExpSeries(f, fxmul(t, f) \div n, n + 1, acc + t)

\* math.exp: v = k ln 2 + f with 0 <= f < ln 2, e^v = 2^k e^f
fexp(v) ==
  LET k == FloorDiv(v, Ln2)
  IN  Round(ExpSeries(v - k * Ln2, One, 1, 0), k)

\* 2 / sqrt(pi) = 1.128379...
TwoOverSqrtPi == One + (128379 * (One \div 64)) \div 15625

\* sum over n of (-1)^n z^(2n+1) / (n! (2n+1)); p is z^(2n+1) / n!
RECURSIVE ErfSeries(_, _, _, _)
ErfSeries(z2, p, n, acc) ==
  IF p = 0 THEN acc
  ELSE ErfSeries(z2, fxmul(p, z2) \div (n + 1), n + 1,
                 IF n % 2 = 0 THEN acc + p \div (2 * n + 1)
                 ELSE acc - p \div (2 * n + 1))

\* from here on erf(z) is 1 to the last bit of any float of at most 10 bits
ErfSat == (5 * One) \div 2

\* math.erf: odd, saturating at +-1
ferf(z) ==
  IF Abs(z) >= ErfSat THEN Sgn(z) * One
  ELSE LET s == ErfSeries(fxmul(z, z), Abs(z), 0, 0)
           r == Max(0, Min(One, fxmul(s, TwoOverSqrtPi)))
       IN  Sgn(z) * Round(r, 0)

\* ------------------------------------------- norm_cdf (lines 3-10)
\* norm_cdf with the "1.0 +" of line 10 left out
norm_cdf_NoShift(x) == fdiv(ferf(fdiv(x, fsqrt(Two))), Two)

\* return (1.0 + math.erf(x / math.sqrt(2.0))) / 2.0
norm_cdf(x) == fdiv(fadd(One, ferf(fdiv(x, fsqrt(Two)))), Two)

\* ------------------------------------------- values and exceptions
\* The result of evaluating an expression: a float, or the exception raised.
Ok(x) == [err |-> "", v |-> x]
Raise(e) == [err |-> e, v |-> 0]

ZeroDivisionError == "ZeroDivisionError"
MathDomainError == "ValueError: math domain error"
InvalidSelector == "ValueError: Invalid option or barrier type"
NameError == "NameError"

\* Python evaluates the left operand, then the right one, then applies the
\* operator: the first exception in that order is the one that is raised.
Add(a, b) == IF a.err # "" THEN a ELSE IF b.err # "" THEN b ELSE Ok(fadd(a.v, b.v))
Sub(a, b) == IF a.err # "" THEN a ELSE IF b.err # "" THEN b ELSE Ok(fsub(a.v, b.v))
Mul(a, b) == IF a.err # "" THEN a ELSE IF b.err # "" THEN b ELSE Ok(fmul(a.v, b.v))
Neg(a) == IF a.err # "" THEN a ELSE Ok(fneg(a.v))

\* a division that yields 0.0 on a zero divisor instead of raising
Div_Guarded(a, b) ==
  IF a.err # "" THEN a
  ELSE IF b.err # "" THEN b
  ELSE IF b.v = 0 THEN Ok(0)
  ELSE Ok(fdiv(a.v, b.v))

\* float / float raises ZeroDivisionError on a zero divisor
Div(a, b) ==
  IF a.err # "" THEN a
  ELSE IF b.err # "" THEN b
  ELSE IF b.v = 0 THEN Raise(ZeroDivisionError)
  ELSE Ok(fdiv(a.v, b.v))

\* x ** 2
Sq(a) == Mul(a, a)

\* math.log raises ValueError unless its argument is > 0
Log(a) ==
  IF a.err # "" THEN a ELSE IF a.v <= 0 THEN Raise(MathDomainError) ELSE Ok(flog(a.v))

\* math.sqrt raises ValueError on a negative argument
Sqrt(a) ==
  IF a.err # "" THEN a ELSE IF a.v < 0 THEN Raise(MathDomainError) ELSE Ok(fsqrt(a.v))

Exp(a) == IF a.err # "" THEN a ELSE Ok(fexp(a.v))

\* a call of norm_cdf, which raises nothing itself
N(a) == IF a.err # "" THEN a ELSE Ok(norm_cdf(a.v))

\* ------------------------------------------- black_scholes_barrier_option
Params == {"S", "K", "T", "r", "sigma", "H"}
Intermediates == {"d1", "d2", "lambda_", "x1", "y1", "y"}
Names == Params \cup Intermediates

\* A value of the module namespace.
Float(x) == [kind |-> "float", v |-> x]
Function == [kind |-> "function", v |-> 0]
Module == [kind |-> "module", v |-> 0]

\* Name resolution inside the function: a local (parameters are locals),
\* else a module-level name, else NameError.
Lookup(locals, g, n) ==
  IF n \in DOMAIN locals THEN Ok(locals[n])
  ELSE IF n \in DOMAIN g /\ g[n].kind = "float" THEN Ok(g[n].v)
  ELSE Raise(NameError)

Env(locals, g) == [n \in Names |-> Lookup(locals, g, n)]

\* an assignment that binds the name in the module namespace, as under a
\* global declaration
StoreGlobal(locals, g, n, x) ==
  [locals |-> locals, globals |-> (n :> Float(x)) @@ g]

\* An assignment inside the function binds a local: the function declares
\* no name global.
Store(locals, g, n, x) == [locals |-> (n :> x) @@ locals, globals |-> g]

\* line 26
d1(v) ==
  Div(Add(Log(Div(v["S"], v["K"])),
          Mul(Add(v["r"], Mul(Ok(Half), Sq(v["sigma"]))), v["T"])),
      Mul(v["sigma"], Sqrt(v["T"])))

\* line 27
d2(v) == Sub(v["d1"], Mul(v["sigma"], Sqrt(v["T"])))

\* line 28
lambda_(v) == Div(Add(v["r"], Mul(Ok(Half), Sq(v["sigma"]))), Sq(v["sigma"]))

\* line 29
x1(v) ==
  Add(Div(Log(Div(v["S"], v["H"])), Mul(v["sigma"], Sqrt(v["T"]))),
      Mul(Mul(v["lambda_"], v["sigma"]), Sqrt(v["T"])))

\* line 30
y1(v) ==
  Add(Div(Log(Div(v["H"], v["S"])), Mul(v["sigma"], Sqrt(v["T"]))),
      Mul(Mul(v["lambda_"], v["sigma"]), Sqrt(v["T"])))

\* line 31
y(v) ==
  Div(Add(Log(Div(Sq(v["H"]), Mul(v["S"], v["K"]))),
          Mul(Add(v["r"], Mul(Ok(Half), Sq(v["sigma"]))), v["T"])),
      Mul(v["sigma"], Sqrt(v["T"])))

\* sigma * math.sqrt(T)
SigmaSqrtT(v) == Mul(v["sigma"], Sqrt(v["T"]))

\* 2 * lambda_ * sigma * math.sqrt(T)
TwoLambdaSigmaSqrtT(v) == Mul(Mul(Mul(Ok(Two), v["lambda_"]), v["sigma"]), Sqrt(v["T"]))

\* K * math.exp(-r * T)
KExp(v) == Mul(v["K"], Exp(Mul(Neg(v["r"]), v["T"])))

\* call & out with y in place of y1 in the first term of the correction
CallOutPrice_y(v) ==
  Sub(Sub(Mul(v["S"], N(v["d1"])), Mul(KExp(v), N(v["d2"]))),
      Add(Sub(Sub(Mul(v["H"], N(Sub(v["y"], SigmaSqrtT(v)))),
                  Mul(v["H"], N(Add(Neg(v["y1"]), SigmaSqrtT(v))))),
              Mul(v["S"], N(Add(Neg(v["d1"]), TwoLambdaSigmaSqrtT(v))))),
          Mul(KExp(v), N(Add(Neg(v["d2"]), TwoLambdaSigmaSqrtT(v))))))

\* lines 34-36, call & out
CallOutPrice(v) ==
  Sub(Sub(Mul(v["S"], N(v["d1"])), Mul(KExp(v), N(v["d2"]))),
      Add(Sub(Sub(Mul(v["H"], N(Sub(v["y1"], SigmaSqrtT(v)))),
                  Mul(v["H"], N(Add(Neg(v["y1"]), SigmaSqrtT(v))))),
              Mul(v["S"], N(Add(Neg(v["d1"]), TwoLambdaSigmaSqrtT(v))))),
          Mul(KExp(v), N(Add(Neg(v["d2"]), TwoLambdaSigmaSqrtT(v))))))

\* call & in reading y where line 39 reads y1
CallInPrice_y(v) ==
  Add(Sub(Sub(Mul(v["H"], N(Sub(v["y"], SigmaSqrtT(v)))),
              Mul(v["H"], N(Add(Neg(v["y"]), SigmaSqrtT(v))))),
          Mul(v["S"], N(Add(Neg(v["d1"]), TwoLambdaSigmaSqrtT(v))))),
      Mul(KExp(v), N(Add(Neg(v["d2"]), TwoLambdaSigmaSqrtT(v)))))

\* lines 39-40, call & in
CallInPrice(v) ==
  Add(Sub(Sub(Mul(v["H"], N(Sub(v["y1"], SigmaSqrtT(v)))),
              Mul(v["H"], N(Add(Neg(v["y1"]), SigmaSqrtT(v))))),
          Mul(v["S"], N(Add(Neg(v["d1"]), TwoLambdaSigmaSqrtT(v))))),
      Mul(KExp(v), N(Add(Neg(v["d2"]), TwoLambdaSigmaSqrtT(v)))))

\* lines 43-45, put & out
PutOutPrice(v) ==
  Sub(Sub(Mul(KExp(v), N(Neg(v["d2"]))), Mul(v["S"], N(Neg(v["d1"])))),
      Add(Sub(Sub(Mul(v["H"], N(Add(Neg(v["y1"]), SigmaSqrtT(v)))),
                  Mul(v["H"], N(Sub(v["y1"], SigmaSqrtT(v))))),
              Mul(v["S"], N(Sub(v["d1"], TwoLambdaSigmaSqrtT(v))))),
          Mul(KExp(v), N(Sub(v["d2"], TwoLambdaSigmaSqrtT(v))))))

\* lines 48-49, put & in
PutInPrice(v) ==
  Add(Sub(Sub(Mul(v["H"], N(Add(Neg(v["y1"]), SigmaSqrtT(v)))),
              Mul(v["H"], N(Sub(v["y1"], SigmaSqrtT(v))))),
          Mul(v["S"], N(Sub(v["d1"], TwoLambdaSigmaSqrtT(v))))),
      Mul(KExp(v), N(Sub(v["d2"], TwoLambdaSigmaSqrtT(v)))))

\* the chain comparing the selectors without regard to case
SelectBranch_AnyCase(option_type, barrier_type) ==
  IF option_type \in {"call", "Call"} /\ barrier_type \in {"out", "Out"} THEN "call_out"
  ELSE IF option_type \in {"call", "Call"} /\ barrier_type \in {"in", "In"} THEN "call_in"
  ELSE IF option_type \in {"put", "Put"} /\ barrier_type \in {"out", "Out"} THEN "put_out"
  ELSE IF option_type \in {"put", "Put"} /\ barrier_type \in {"in", "In"} THEN "put_in"
  ELSE "else"

\* the if / elif chain of lines 33, 38, 42, 47 and the else of line 51
SelectBranch(option_type, barrier_type) ==
  IF option_type = "call" /\ barrier_type = "out" THEN "call_out"
  ELSE IF option_type = "call" /\ barrier_type = "in" THEN "call_in"
  ELSE IF option_type = "put" /\ barrier_type = "out" THEN "put_out"
  ELSE IF option_type = "put" /\ barrier_type = "in" THEN "put_in"
  ELSE "else"

\* lines 33-52: the value returned, or the exception raised
Select(option_type, barrier_type, v) ==
  LET b == SelectBranch(option_type, barrier_type)
  IN  IF b = "call_out" THEN CallOutPrice(v)
      ELSE IF b = "call_in" THEN CallInPrice(v)
      ELSE IF b = "put_out" THEN PutOutPrice(v)
      ELSE IF b = "put_in" THEN PutInPrice(v)
      ELSE Raise(InvalidSelector)

\* the right-hand side of the assignment to n
Rhs(n, v) ==
  IF n = "d1" THEN d1(v)
  ELSE IF n = "d2" THEN d2(v)
  ELSE IF n = "lambda_" THEN lambda_(v)
  ELSE IF n = "x1" THEN x1(v)
  ELSE IF n = "y1" THEN y1(v)
  ELSE y(v)

\* The statements of the function body in order: six assignments, then the
\* if / elif chain.
Body == <<"d1", "d2", "lambda_", "x1", "y1", "y", "select">>

NoArgs ==
  [S |-> 0, K |-> 0, T |-> 0, r |-> 0, sigma |-> 0, H |-> 0,
   option_type |-> "", barrier_type |-> ""]

Pending == Raise("pending")

\* No call is active.
Idle ==
  [status |-> "idle", pc |-> 0, args |-> NoArgs, locals |-> <<>>,
   outcome |-> Pending, caller |-> "", target |-> "", entry |-> <<>>]

\* The frame of a new call: the parameters are bound, nothing else is.
\* entry is the module namespace at the call (kept for the frame condition).
NewFrame(args, caller, target, g) ==
  [status |-> "running", pc |-> 1, args |-> args,
   locals |-> [n \in Params |-> args[n]],
   outcome |-> Pending, caller |-> caller, target |-> target, entry |-> g]

\* One statement of prog executed in frame f under module namespace g:
\* the frame and the module namespace afterwards.
\* e is the value of the statement's expression, or the exception it raised
Exec(prog, f, g) ==
  LET s == prog[f.pc]
      Eval == IF s = "select"
              THEN Select(f.args.option_type, f.args.barrier_type, Env(f.locals, g))
              ELSE Rhs(s, Env(f.locals, g))
      Bind(e) == Store(f.locals, g, s, e.v)
      After(e) ==
        IF s = "select" \/ e.err # ""
        THEN [frame |-> [f EXCEPT !.status = "done", !.outcome = e], globals |-> g]
        ELSE [frame |-> [f EXCEPT !.pc = @ + 1, !.locals = Bind(e).locals],
              globals |-> Bind(e).globals]
  IN  CHOOSE out \in {After(e) : e \in {Eval}} : TRUE

RECURSIVE RunFrom(_, _, _)
RunFrom(prog, f, g) ==
  IF f.status = "done" THEN f
  ELSE CHOOSE end \in {RunFrom(prog, x.frame, x.globals) : x \in {Exec(prog, f, g)}} : TRUE

\* A whole call of the function whose body is prog: its outcome.
RunProg(prog, args) == RunFrom(prog, NewFrame(args, "", "", <<>>), <<>>).outcome

black_scholes_barrier_option(S, K, T, r, sigma, H, option_type, barrier_type) ==
  RunProg(Body, [S |-> S, K |-> K, T |-> T, r |-> r, sigma |-> sigma, H |-> H,
                 option_type |-> option_type, barrier_type |-> barrier_type])

\* ------------------------------------------- the module (lines 1-71)
Stmt(line, kind, name, num, den, ot, bt) ==
  [line |-> line, kind |-> kind, name |-> name, num |-> num, den |-> den,
   option_type |-> ot, barrier_type |-> bt]

\* The module's top-level statements in order.
ModuleBody ==
  << Stmt(1, "import", "math", 0, 1, "", ""),
     Stmt(3, "def", "norm_cdf", 0, 1, "", ""),
     Stmt(12, "def", "black_scholes_barrier_option", 0, 1, "", ""),
     Stmt(55, "assign", "S", 1274, 100, "", ""),
     Stmt(56, "assign", "K", 141414, 10000, "", ""),
     Stmt(57, "assign", "T", 282, 252, "", ""),
     Stmt(58, "assign", "r", 6101856, 1000000, "", ""),
     Stmt(59, "assign", "sigma", 2745, 10000, "", ""),
     Stmt(60, "assign", "H", 1528, 100, "", ""),
     Stmt(63, "call", "call_in_price", 0, 1, "call", "in"),
     Stmt(64, "call", "call_out_price", 0, 1, "call", "out"),
     Stmt(65, "call", "put_in_price", 0, 1, "put", "in"),
     Stmt(66, "call", "put_out_price", 0, 1, "put", "out"),
     Stmt(68, "print", "call_in_price", 0, 1, "", ""),
     Stmt(69, "print", "call_out_price", 0, 1, "", ""),
     Stmt(70, "print", "put_in_price", 0, 1, "", ""),
     Stmt(71, "print", "put_out_price", 0, 1, "", "") >>

\* f"{x:.2f}": the hundredths of x, rounded half to even, as sign, whole
\* part and two decimals
Format2f(x) ==
  LET c == RoundHalfEven(Abs(x) * 100, FracBits)
  IN  [neg |-> x < 0 /\ c # 0, whole |-> c \div 100, frac |-> c % 100]

VARIABLES
  loader,   \* the import: the index of the next top-level statement, and its status
  globals,  \* the module namespace
  stdout,   \* what has been printed
  frame,    \* the active call of black_scholes_barrier_option, or Idle
  history,  \* completed calls, in order (kept by the determinism specification)
  cx, cy, cres  \* two arguments of norm_cdf and the values returned for them

vars == <<loader, globals, stdout, frame, history, cx, cy, cres>>

\* norm_cdf has not been called
NoResult == [done |-> FALSE, x |-> 0, y |-> 0, negx |-> 0]

Current == ModuleBody[loader.pc]
Loading(kind) == loader.status = "loading" /\ frame.status = "idle" /\ Current.kind = kind

\* the loader after the current statement
Advance ==
  IF loader.pc = Len(ModuleBody) THEN [pc |-> loader.pc, status |-> "loaded"]
  ELSE [loader EXCEPT !.pc = @ + 1]

Init ==
  /\ loader = [pc |-> 1, status |-> "loading"]
  /\ globals = <<>>
  /\ stdout = <<>>
  /\ frame = Idle
  /\ history = <<>>
  /\ cx = 0 /\ cy = 0 /\ cres = NoResult

\* line 1
LoadImport ==
  /\ Loading("import")
  /\ globals' = (Current.name :> Module) @@ globals
  /\ loader' = Advance
  /\ UNCHANGED <<stdout, frame, history, cx, cy, cres>>

\* lines 3 and 12
LoadDef ==
  /\ Loading("def")
  /\ globals' = (Current.name :> Function) @@ globals
  /\ loader' = Advance
  /\ UNCHANGED <<stdout, frame, history, cx, cy, cres>>

\* lines 55-60
LoadAssign ==
  /\ Loading("assign")
  /\ globals' = (Current.name :> Float(Lit(Current.num, Current.den))) @@ globals
  /\ loader' = Advance
  /\ UNCHANGED <<stdout, frame, history, cx, cy, cres>>

\* lines 63-66: the call is entered; the assignment of its result is Return's
LoadCall ==
  /\ Loading("call")
  /\ Params \subseteq DOMAIN globals
  /\ frame' = NewFrame([S |-> globals["S"].v, K |-> globals["K"].v, T |-> globals["T"].v,
                        r |-> globals["r"].v, sigma |-> globals["sigma"].v,
                        H |-> globals["H"].v, option_type |-> Current.option_type,
                        barrier_type |-> Current.barrier_type],
                       "module", Current.name, globals)
  /\ UNCHANGED <<loader, globals, stdout, history, cx, cy, cres>>

\* lines 68-71
LoadPrint ==
  /\ Loading("print")
  /\ Current.name \in DOMAIN globals
  /\ stdout' = Append(stdout, Format2f(globals[Current.name].v))
  /\ loader' = Advance
  /\ UNCHANGED <<globals, frame, history, cx, cy, cres>>

\* One statement of the function body (lines 26-52).
Step ==
  /\ frame.status = "running"
  /\ \E x \in {Exec(Body, frame, globals)} : frame' = x.frame /\ globals' = x.globals
  /\ UNCHANGED <<loader, stdout, history, cx, cy, cres>>

Record == [args |-> frame.args, outcome |-> frame.outcome,
           caller |-> frame.caller, wrote |-> globals # frame.entry]

\* The call ends.  At module level the value returned is bound to the target
\* name; an exception ends the import.  log: whether the call is recorded.
Return(log) ==
  /\ frame.status = "done"
  /\ frame' = Idle
  /\ IF frame.caller = "module"
     THEN IF frame.outcome.err = ""
          THEN /\ globals' = (frame.target :> Float(frame.outcome.v)) @@ globals
               /\ loader' = Advance
          ELSE /\ globals' = globals
               /\ loader' = [loader EXCEPT !.status = "failed"]
     ELSE UNCHANGED <<loader, globals>>
  /\ history' = IF log THEN Append(history, Record) ELSE history
  /\ UNCHANGED <<stdout, cx, cy, cres>>

\* The import is over and no call is active.
Ready == loader.status = "loaded" /\ frame.status = "idle"

\* A client that has imported the module calls the function.
Call(args) ==
  /\ Ready
  /\ frame' = NewFrame(args, "client", "", globals)
  /\ UNCHANGED <<loader, globals, stdout, history, cx, cy, cres>>

Load == LoadImport \/ LoadDef \/ LoadAssign \/ LoadCall \/ LoadPrint

\* The arguments a client passes.  Either S, K and H are any of the prices,
\* zero and negative ones included, with T and sigma positive; or T and sigma
\* are any of the times and volatilities, zero included, with S, K and H
\* positive.  r and the two selectors are arbitrary in both.
Prices == {p * One : p \in -1 .. MaxPrice}
Times == {0, One}
Vols == {0, Half, One}
Rates == {-One, 0, One}
OptionTypes == {"call", "put", "straddle", "Call"}
BarrierTypes == {"in", "out", "up", "In"}

Positive(set) == {x \in set : x > 0}

Args ==
  [S : Prices, K : Prices, T : Positive(Times), r : Rates, sigma : Positive(Vols),
   H : Prices, option_type : OptionTypes, barrier_type : BarrierTypes]
  \cup
  [S : Positive(Prices), K : Positive(Prices), T : Times, r : Rates, sigma : Vols,
   H : Positive(Prices), option_type : OptionTypes, barrier_type : BarrierTypes]

ClientCall == Ready /\ \E a \in Args : Call(a)

Next == Load \/ Step \/ Return(FALSE) \/ ClientCall

Spec == Init /\ [][Next]_vars

\* ------------------------------------------- determinism specification
\* The example's arguments, as the import binds them.
Example(option_type, barrier_type) ==
  [S |-> Lit(1274, 100), K |-> Lit(141414, 10000), T |-> Lit(282, 252),
   r |-> Lit(6101856, 1000000), sigma |-> Lit(2745, 10000), H |-> Lit(1528, 100),
   option_type |-> option_type, barrier_type |-> barrier_type]

DetArgs ==
  { Example("call", "in"), Example("put", "out"), Example("straddle", "in"),
    [Example("call", "in") EXCEPT !.sigma = 0],
    [Example("call", "in") EXCEPT !.H = 0],
    [Example("call", "in") EXCEPT !.S = One, !.K = One] }

LoadCalls == Cardinality({i \in 1 .. Len(ModuleBody) : ModuleBody[i].kind = "call"})

DetCall == Ready /\ Len(history) < LoadCalls + MaxCalls /\ \E a \in DetArgs : Call(a)

NextDet == Load \/ Step \/ Return(TRUE) \/ DetCall

SpecDet == Init /\ [][NextDet]_vars

\* ------------------------------------------- norm_cdf specification
XGrid == {(k * One) \div 8 : k \in 0 .. XSteps} \cup {-((k * One) \div 8) : k \in 0 .. XSteps}

CdfInit ==
  /\ cx \in XGrid /\ cy \in XGrid /\ cres = NoResult
  /\ loader = [pc |-> Len(ModuleBody), status |-> "loaded"]
  /\ globals = <<>> /\ stdout = <<>> /\ frame = Idle /\ history = <<>>

\* norm_cdf is called on cx, cy and -cx
CdfEval ==
  /\ ~cres.done
  /\ cres' = [done |-> TRUE, x |-> norm_cdf(cx), y |-> norm_cdf(cy),
              negx |-> norm_cdf(-cx)]
  /\ UNCHANGED <<loader, globals, stdout, frame, history, cx, cy>>

SpecCdf == CdfInit /\ [][CdfEval]_vars

\* ------------------------------------------- properties
Done == frame.status = "done"
Returned == Done /\ frame.outcome.err = ""

FourPairs == {<<"call", "in">>, <<"call", "out">>, <<"put", "in">>, <<"put", "out">>}
ValidSelector(a) == <<a.option_type, a.barrier_type>> \in FourPairs

\* S, K, T, sigma, H > 0
ValidNumbers(a) == a.S > 0 /\ a.K > 0 /\ a.T > 0 /\ a.sigma > 0 /\ a.H > 0

\* The vanilla Black-Scholes price of the claim, from the d1 and d2 of the call:
\* call S N(d1) - K exp(-rT) N(d2), put K exp(-rT) N(-d2) - S N(-d1).
Vanilla(option_type, v) ==
  IF option_type = "call"
  THEN Sub(Mul(v["S"], N(v["d1"])), Mul(KExp(v), N(v["d2"])))
  ELSE Sub(Mul(KExp(v), N(Neg(v["d2"]))), Mul(v["S"], N(Neg(v["d1"]))))

\* The same call with the other barrier_type.
Twin(a) == [a EXCEPT !.barrier_type = IF @ = "in" THEN "out" ELSE "in"]

InPrice == IF frame.args.barrier_type = "in" THEN frame.outcome
           ELSE RunProg(Body, Twin(frame.args))
OutPrice == IF frame.args.barrier_type = "out" THEN frame.outcome
            ELSE RunProg(Body, Twin(frame.args))
VanillaPrice == Vanilla(frame.args.option_type, Env(frame.locals, globals))

\* C1: for valid S, K, T, sigma, H (any r) and each option_type, the 'in'
\* price is exactly the correction term that the 'out' branch subtracts from
\* the vanilla price (out = vanilla - in, the float subtraction), so that
\* in + out equals the vanilla price within the rounding of that subtraction
\* (a relative error of at most 2^-Precision).
C1_Parity ==
  (Done /\ ValidNumbers(frame.args) /\ ValidSelector(frame.args)) =>
    \A pin \in {InPrice}, pout \in {OutPrice}, vanilla \in {VanillaPrice} :
      /\ pin.err = "" /\ pout.err = "" /\ vanilla.err = ""
      /\ pout.v = fsub(vanilla.v, pin.v)
      /\ Abs(pin.v + pout.v - vanilla.v) * Pow2(Precision) <= Abs(pout.v)

\* a put has been priced, both prices are non-zero and the sum is rounded
C1_Witness ==
  /\ Done /\ ValidNumbers(frame.args) /\ frame.args.option_type = "put"
  /\ frame.args.barrier_type = "in" /\ frame.args.r < 0
  /\ \E pin \in {InPrice}, pout \in {OutPrice} :
       /\ pin.err = "" /\ pin.v # 0 /\ pout.v # 0
       /\ pin.v + pout.v # VanillaPrice.v

\* C2: with S, K, T, r, sigma, H > 0 each of the four branches returns a
\* price >= 0.
C2_NonNegative ==
  (Returned /\ ValidNumbers(frame.args) /\ frame.args.r > 0 /\ ValidSelector(frame.args))
    => frame.outcome.v >= 0

\* C3: for valid numeric inputs a price is returned if and only if
\* (option_type, barrier_type) is one of the four literal pairs; every other
\* pair ends in the invalid-selector error.
C3_Selector ==
  (Done /\ ValidNumbers(frame.args)) =>
    /\ frame.outcome.err = "" <=> ValidSelector(frame.args)
    /\ ~ValidSelector(frame.args) => frame.outcome.err = InvalidSelector

\* a differently-cased literal has ended in the invalid-selector error
C3_Witness ==
  /\ Done /\ ValidNumbers(frame.args)
  /\ frame.args.option_type = "Call" /\ frame.args.barrier_type = "in"
  /\ frame.outcome.err = InvalidSelector

\* C4: an invalid selector is signalled before any of d1, d2, lambda_, x1,
\* y1, y is computed, so a call with an invalid selector always ends in the
\* invalid-selector error, whatever the numeric inputs.
C4_FailFast ==
  (frame.status # "idle" /\ ~ValidSelector(frame.args)) =>
    /\ DOMAIN frame.locals = Params
    /\ Done => frame.outcome.err = InvalidSelector

\* C5: with a valid selector and sigma = 0 or T = 0 (S, K, H > 0) the call
\* ends in the exception of the division by sigma * sqrt(T), at line 26, and
\* returns no number.
C5_ZeroVolOrTime ==
  (/\ Done /\ ValidSelector(frame.args)
   /\ frame.args.S > 0 /\ frame.args.K > 0 /\ frame.args.H > 0
   /\ frame.args.sigma >= 0 /\ frame.args.T >= 0
   /\ (frame.args.sigma = 0 \/ frame.args.T = 0)) =>
    /\ frame.outcome.err = ZeroDivisionError
    /\ "d1" \notin DOMAIN frame.locals

\* T = 0 with sigma > 0 has ended a put & out call in ZeroDivisionError
C5_Witness ==
  /\ Done /\ frame.args.option_type = "put" /\ frame.args.barrier_type = "out"
  /\ frame.args.S > 0 /\ frame.args.K > 0 /\ frame.args.H > 0
  /\ frame.args.sigma > 0 /\ frame.args.T = 0 /\ frame.args.r < 0
  /\ frame.outcome.err = ZeroDivisionError

\* C6: with a valid selector, T > 0 and sigma > 0, a call in which at least
\* one of S, K, H is zero or negative ends in an exception, for every sign
\* combination of S, K and H.
C6_NonPositiveRaises ==
  (/\ Done /\ ValidSelector(frame.args)
   /\ frame.args.T > 0 /\ frame.args.sigma > 0
   /\ (frame.args.S <= 0 \/ frame.args.K <= 0 \/ frame.args.H <= 0)) =>
    frame.outcome.err \in {ZeroDivisionError, MathDomainError}

\* C7: calls write no shared state, and two calls with identical arguments
\* have identical outcomes, whatever was called in between, at import or by
\* a client, returning or raising.
C7_Deterministic ==
  /\ \A i \in 1 .. Len(history) : ~history[i].wrote
  /\ \A i, j \in 1 .. Len(history) :
       history[i].args = history[j].args => history[i].outcome = history[j].outcome

\* after the import's four calls a client's call has raised, and the client
\* has then repeated the import's first call
C7_Witness ==
  /\ Len(history) = LoadCalls + 2
  /\ history[LoadCalls + 1].outcome.err = ZeroDivisionError
  /\ history[LoadCalls + 2].caller = "client"
  /\ history[LoadCalls + 2].args = history[1].args
  /\ history[1].caller = "module"
  /\ history[LoadCalls + 2].outcome.err = ""

\* C8: importing the module only defines the two functions: no pricing call
\* is made and nothing is printed by the import.
C8_ImportOnlyDefines == frame.caller # "module" /\ stdout = <<>>

\* C9 (as amended): norm_cdf returns a value for every x; norm_cdf(0) = 0.5;
\* norm_cdf(-x) and 1 - norm_cdf(x) differ by at most 2^-Precision, the
\* spacing of the floats just below 1.0; x <= x' implies
\* norm_cdf(x) <= norm_cdf(x'); every value is in [0, 1].
C9_CdfLaws ==
  cres.done =>
    /\ cx = 0 => cres.x = Half
    /\ Abs(cres.negx - fsub(One, cres.x)) <= One \div Pow2(Precision)
    /\ cx <= cy => cres.x <= cres.y
    /\ 0 <= cres.x /\ cres.x <= One

\* x < x' with distinct values, and norm_cdf(-x) is not the float 1 - norm_cdf(x)
C9_Witness ==
  /\ cres.done /\ 0 < cx /\ cx < cy /\ cres.x < cres.y
  /\ cres.negx # fsub(One, cres.x)

\* C9 as stated: norm_cdf(-x) = 1 - norm_cdf(x) exactly, for every x.
C9_ExactSymmetry == cres.done => cres.negx = fsub(One, cres.x)

\* The function body without the assignments to x1 and y.
Pruned == SelectSeq(Body, LAMBDA s : s \notin {"x1", "y"})

\* Other values for y and x1.
Alt == {0, One, -3 * One}

====
